---- MODULE Spec2Model ----
(***************************************************************************)
(* Model of lab4.py: the clinic-visit record keeper.  The state is the     *)
(* data file data.csv, the in-memory MedicalRecordsCollection owned by     *)
(* main(), the position of main() and the console output of the last menu  *)
(* command.  Every menu option of main() is one action.                    *)
(*                                                                         *)
(* A CSV cell is a string.  A CSV row is the sequence of its cells, a CSV  *)
(* file is a header (sequence of column names) and a sequence of rows.     *)
(* The environment supplies files in the documented column order, with or  *)
(* without the trailing urgency column, or cut after the reason column;    *)
(* rows may be short, blank, or hold cells that are not numbers.           *)
(***************************************************************************)
EXTENDS Integers, Sequences, FiniteSets, TLC

VARIABLES file, collection, pc, out

vars == <<file, collection, pc, out>>

(* ---------------------------- bounds ---------------------------------- *)

\* most rows in the data file the environment supplies
MaxRows == 2
\* most records the collection grows to (guards option 6)
MaxRecords == 3

(* ------------------------- Python values ------------------------------ *)

\* Python's None, as csv.DictReader's restval of a short row; it is no cell text.
None == "<None>"

\* the file does not exist
Missing == [exists |-> FALSE, header |-> <<>>, rows |-> <<>>]

\* the integers whose decimal text occurs in the model
IntRange == -5 .. 40

\* int(s): the texts int() accepts, with the value each denotes.  Besides the
\* canonical decimal text, int() accepts surrounding blanks and a plus sign.
IntLiterals ==
    {<<ToString(n), n>> : n \in IntRange} \cup {<<" 15 ", 15>>, <<"+2", 2>>}

\* int(s) raises ValueError (text that is no number) or TypeError (None)
IsInt(s) == \E p \in IntLiterals : p[1] = s

IntOf(s) == (CHOOSE p \in IntLiterals : p[1] = s)[2]

\* str(n), as csv.writer writes a number
Str(n) == ToString(n)

\* datetime.date.today().isoformat(), on the day the process runs
today == "2026-11-01"

\* `date or today`: None and the empty text are falsy
DateOrToday(date) == IF date = None \/ date = "" THEN today ELSE date

\* the patient names of the model in code-point order; Python compares str by code point
NameOrder == <<"Ann", "Bob", "Cy">>

StrRank(s) == CHOOSE i \in 1 .. Len(NameOrder) : NameOrder[i] = s

(* --------------------------- records ---------------------------------- *)

MedicalRecord(id, patient_name, doctor_name, reason, duration, date) ==
    [cls |-> "MedicalRecord", id |-> id, patient_name |-> patient_name,
     doctor_name |-> doctor_name, reason |-> reason, duration |-> duration,
     date |-> DateOrToday(date)]

EmergencyRecord(id, patient_name, doctor_name, reason, duration, urgency, date) ==
    [cls |-> "EmergencyRecord", id |-> id, patient_name |-> patient_name,
     doctor_name |-> doctor_name, reason |-> reason, duration |-> duration,
     date |-> DateOrToday(date), urgency |-> urgency]

\* getattr(record, 'urgency', 0)
UrgencyOrZero(record) == IF "urgency" \in DOMAIN record THEN record.urgency ELSE 0

(* ----------------------------- CSV ------------------------------------ *)

fieldnames ==
    <<"id", "patient_name", "doctor_name", "reason", "duration", "date", "urgency">>

Range(s) == {s[i] : i \in DOMAIN s}

\* position of a column in a header
ColumnIndex(header, name) == CHOOSE i \in DOMAIN header : header[i] = name

\* csv.DictReader: one dict per non-blank row, keyed by the header; a row
\* shorter than the header reads None for the columns it lacks, cells beyond
\* the header are not keyed by any column.
DictRow(header, row) ==
    [name \in Range(header) |->
        IF ColumnIndex(header, name) <= Len(row)
        THEN row[ColumnIndex(header, name)] ELSE None]

DictReader(f) ==
    LET kept == SelectSeq(f.rows, LAMBDA row : row # <<>>)
    IN  [i \in 1 .. Len(kept) |-> DictRow(f.header, kept[i])]

\* row.get(name): None when the header has no such column
Get(row, name) == IF name \in DOMAIN row THEN row[name] ELSE None

\* row[name] raises KeyError when the header has no such column
HasKey(row, name) == name \in DOMAIN row

\* int(row.get('urgency', 0)) does not raise
UrgencyParses(row) == HasKey(row, "urgency") => IsInt(row["urgency"])

\* int(row.get('urgency', 0))
UrgencyOf(row) == IF HasKey(row, "urgency") THEN IntOf(row["urgency"]) ELSE 0

\* the body of the loop of load_from_csv raises nothing on this row
RowLoads(row) ==
    /\ HasKey(row, "id") /\ IsInt(row["id"])
    /\ HasKey(row, "duration") /\ IsInt(row["duration"])
    /\ UrgencyParses(row)
    /\ HasKey(row, "patient_name") /\ HasKey(row, "doctor_name") /\ HasKey(row, "reason")

\* a variant test that takes urgency 0 for an emergency
RecordFromRow_nonneg(row) ==
    IF UrgencyOf(row) >= 0
    THEN EmergencyRecord(IntOf(row["id"]), row["patient_name"], row["doctor_name"],
                         row["reason"], IntOf(row["duration"]), UrgencyOf(row),
                         Get(row, "date"))
    ELSE MedicalRecord(IntOf(row["id"]), row["patient_name"], row["doctor_name"],
                       row["reason"], IntOf(row["duration"]), Get(row, "date"))

\* the record a row becomes: `if urgency > 0` chooses the variant
RecordFromRow(row) ==
    IF UrgencyOf(row) > 0
    THEN EmergencyRecord(IntOf(row["id"]), row["patient_name"], row["doctor_name"],
                         row["reason"], IntOf(row["duration"]), UrgencyOf(row),
                         Get(row, "date"))
    ELSE MedicalRecord(IntOf(row["id"]), row["patient_name"], row["doctor_name"],
                       row["reason"], IntOf(row["duration"]), Get(row, "date"))

\* the loop of load_from_csv: records are added to the collection one row at a
\* time; the first row that raises ends the loop, and the except clause leaves
\* the collection as the loop built it so far.
RECURSIVE LoadLoop(_, _, _)
LoadLoop(rows, i, acc) ==
    IF i > Len(rows) THEN [records |-> acc, msg |-> "loaded"]
    ELSE IF ~RowLoads(rows[i]) THEN [records |-> acc, msg |-> "error"]
    ELSE LoadLoop(rows, i + 1, Append(acc, RecordFromRow(rows[i])))

\* MedicalRecordsCollection.load_from_csv: the collection returned and the
\* diagnostic printed
load_from_csv(f) ==
    IF ~f.exists THEN [records |-> <<>>, msg |-> "not_found"]
    ELSE LoadLoop(DictReader(f), 1, <<>>)

\* the cell csv.writer writes for a text value (None is written as the empty text)
TextCell(v) == IF v = None THEN "" ELSE v

\* the row save_to_csv writes for a record
RowOf(record) ==
    <<Str(record.id), TextCell(record.patient_name), TextCell(record.doctor_name),
      TextCell(record.reason), Str(record.duration), TextCell(record.date),
      Str(UrgencyOrZero(record))>>

\* a save that does not test the collection for emptiness
save_to_csv_unguarded(records, f) ==
    [exists |-> TRUE, header |-> fieldnames,
     rows |-> [i \in 1 .. Len(records) |-> RowOf(records[i])]]

\* MedicalRecordsCollection.save_to_csv: the file after the call
save_to_csv(records, f) ==
    IF Len(records) = 0 THEN f
    ELSE [exists |-> TRUE, header |-> fieldnames,
          rows |-> [i \in 1 .. Len(records) |-> RowOf(records[i])]]

(* ---------------------- collection operations ------------------------- *)

\* the sort key: lambda r: r.patient_name, lambda r: r.duration
Key(r, k) == IF k = "patient_name" THEN StrRank(r.patient_name) ELSE r[k]

\* a sort that puts r before the elements of equal key
InsertUnstable(s, r, k) ==
    LET n == Cardinality({i \in DOMAIN s : Key(s[i], k) < Key(r, k)})
    IN  SubSeq(s, 1, n) \o <<r>> \o SubSeq(s, n + 1, Len(s))

RECURSIVE Sorted_unstable(_, _)
Sorted_unstable(s, k) ==
    IF s = <<>> THEN <<>>
    ELSE InsertUnstable(Sorted_unstable(SubSeq(s, 1, Len(s) - 1), k), s[Len(s)], k)

\* sorted(): r goes after every element whose key is not greater (stable)
InsertStable(s, r, k) ==
    LET n == Cardinality({i \in DOMAIN s : Key(s[i], k) <= Key(r, k)})
    IN  SubSeq(s, 1, n) \o <<r>> \o SubSeq(s, n + 1, Len(s))

\* sorted(records, key): the records inserted one by one, in their order
RECURSIVE Sorted(_, _)
Sorted(s, k) ==
    IF s = <<>> THEN <<>>
    ELSE InsertStable(Sorted(SubSeq(s, 1, Len(s) - 1), k), s[Len(s)], k)

sort_by_patient_name(records) == Sorted(records, "patient_name")

sort_by_duration(records) == Sorted(records, "duration")

\* a filter that keeps the records of duration equal to the minimum
filter_by_duration_ge(records, min_duration) ==
    SelectSeq(records, LAMBDA r : r.duration >= min_duration)

\* [r for r in self._records if r.duration > min_duration]
filter_by_duration(records, min_duration) ==
    SelectSeq(records, LAMBDA r : r.duration > min_duration)

get_emergency_records(records) ==
    SelectSeq(records, LAMBDA r : r.cls = "EmergencyRecord")

get_records_by_doctor(records, doctor_name) ==
    SelectSeq(records, LAMBDA r : r.doctor_name = doctor_name)

add(records, record) == Append(records, record)

(* ------------------------- the environment ---------------------------- *)

\* rows a data file may hold: a well-formed base row and a well-formed
\* emergency row with an empty date (they tie on name and duration), a row with
\* a duplicate id, a negative duration and a negative urgency, a row whose id
\* is no number, a row cut short before its urgency cell, and a blank line
Rows ==
    { <<"1", "Ann", "House", "flu", "15", "2024-01-01", "0">>,
      <<"3", "Ann", "Wilson", "flu", " 15 ", "", "+2">>,
      <<"1", "Bob", "House", "flu", "-5", "2024-01-01", "-1">>,
      <<"x", "Bob", "House", "flu", "15", "2024-01-01", "0">>,
      <<"5", "Cy", "House", "flu", "30", "2024-01-01">>,
      <<>> }

\* headers other than the documented one: without the urgency column, and
\* without the duration, date and urgency columns
ShortHeaders == {SubSeq(fieldnames, 1, 6), SubSeq(fieldnames, 1, 4)}

SeqsUpTo(S, n) == UNION {[1 .. m -> S] : m \in 0 .. n}

\* the data file when the process starts: absent, or the documented header
\* over up to MaxRows rows, or a shorter header over one row
Files ==
    {Missing}
    \cup {[exists |-> TRUE, header |-> fieldnames, rows |-> rs] :
            rs \in SeqsUpTo(Rows, MaxRows)}
    \cup {[exists |-> TRUE, header |-> h, rows |-> <<row>>] :
            h \in ShortHeaders, row \in Rows}

\* what the user types at the prompts of option 6; a prompt that is not
\* reached gets no text
Typed(duration, emergency, urgency) ==
    [patient |-> "Bob", doctor |-> "House", reason |-> "flu",
     duration |-> duration, emergency |-> emergency, urgency |-> urgency]

AddInputs ==
    { Typed("30", "n", ""), Typed("30", "y", "2"), Typed("-5", "Y", "0"),
      Typed("abc", "", ""), Typed("30", "y", "abc") }

\* what the user types at the prompt of option 4
FilterInputs == {"15", "abc"}

\* what the user types at the prompt of option 8
DoctorInputs == {"Wilson"}

\* str.lower() on the answers of the model
Lower(s) == IF s = "Y" THEN "y" ELSE s

\* the console output of a command: the command, the diagnostic, the numeric
\* texts typed and the records printed
Output(op, msg, duration, emergency, urgency, min, result) ==
    [op |-> op, msg |-> msg, duration |-> duration, emergency |-> emergency,
     urgency |-> urgency, min |-> min, result |-> result]

Plain(op, msg, result) == Output(op, msg, "", "", "", "", result)

(* ------------------------------ main ---------------------------------- *)

Init ==
    /\ file \in Files
    /\ collection = <<>>
    /\ pc = "start"
    /\ out = Plain("start", "", <<>>)

\* a load that creates the file it did not find
Load_creating ==
    /\ pc = "start"
    /\ LET r == load_from_csv(file)
       IN  /\ collection' = r.records
           /\ out' = Plain("load", r.msg, <<>>)
           /\ file' = IF file.exists THEN file
                      ELSE [exists |-> TRUE, header |-> fieldnames, rows |-> <<>>]
    /\ pc' = "menu"

\* main: collection = MedicalRecordsCollection.load_from_csv("data.csv")
Load ==
    /\ pc = "start"
    /\ LET r == load_from_csv(file)
       IN  /\ collection' = r.records
           /\ out' = Plain("load", r.msg, <<>>)
    /\ pc' = "menu"
    /\ UNCHANGED file

\* option 1: collection.print_all()
ShowAll ==
    /\ pc = "menu"
    /\ out' = Plain("print_all", "", collection)
    /\ UNCHANGED <<file, collection, pc>>

\* option 2
SortByPatientName ==
    /\ pc = "menu"
    /\ out' = Plain("sort_by_patient_name", "", sort_by_patient_name(collection))
    /\ UNCHANGED <<file, collection, pc>>

\* option 3
SortByDuration ==
    /\ pc = "menu"
    /\ out' = Plain("sort_by_duration", "", sort_by_duration(collection))
    /\ UNCHANGED <<file, collection, pc>>

\* option 4: int() of the text typed, then filter_by_duration; ValueError is caught
FilterByDuration ==
    /\ pc = "menu"
    /\ \E text \in FilterInputs :
          out' = IF IsInt(text)
                 THEN Output("filter_by_duration", "", "", "", "", text,
                             filter_by_duration(collection, IntOf(text)))
                 ELSE Output("filter_by_duration", "input_error", "", "", "", text, <<>>)
    /\ UNCHANGED <<file, collection, pc>>

\* option 5
ShowEmergency ==
    /\ pc = "menu"
    /\ out' = Plain("get_emergency_records", "", get_emergency_records(collection))
    /\ UNCHANGED <<file, collection, pc>>

\* an id counted from the length of the collection
NextId_len(records) == Len(records) + 1

\* id = max(r.id for r in collection) + 1 if collection else 1
NextId(records) ==
    IF Len(records) = 0 THEN 1
    ELSE (CHOOSE m \in {records[i].id : i \in DOMAIN records} :
             \A i \in DOMAIN records : records[i].id <= m) + 1

\* option 6 with an except clause that keeps a base record when the urgency
\* typed is no number
AddResult_keeping(records, in) ==
    IF ~IsInt(in.duration) THEN [records |-> records, msg |-> "input_error"]
    ELSE IF Lower(in.emergency) = "y" /\ IsInt(in.urgency)
    THEN [records |-> add(records,
                          EmergencyRecord(NextId(records), in.patient, in.doctor,
                                          in.reason, IntOf(in.duration),
                                          IntOf(in.urgency), None)),
          msg |-> "added"]
    ELSE [records |-> add(records,
                          MedicalRecord(NextId(records), in.patient, in.doctor,
                                        in.reason, IntOf(in.duration), None)),
          msg |-> IF Lower(in.emergency) = "y" THEN "input_error" ELSE "added"]

\* option 6: the try block of main; ValueError from either int() is caught
\* before collection.add is reached
AddResult(records, in) ==
    IF ~IsInt(in.duration) THEN [records |-> records, msg |-> "input_error"]
    ELSE IF Lower(in.emergency) = "y"
    THEN IF ~IsInt(in.urgency) THEN [records |-> records, msg |-> "input_error"]
         ELSE [records |-> add(records,
                               EmergencyRecord(NextId(records), in.patient, in.doctor,
                                               in.reason, IntOf(in.duration),
                                               IntOf(in.urgency), None)),
               msg |-> "added"]
    ELSE [records |-> add(records,
                          MedicalRecord(NextId(records), in.patient, in.doctor,
                                        in.reason, IntOf(in.duration), None)),
          msg |-> "added"]

AddRecord ==
    /\ pc = "menu"
    /\ Len(collection) < MaxRecords
    /\ \E in \in AddInputs :
          LET r == AddResult(collection, in)
          IN  /\ collection' = r.records
              /\ out' = Output("add", r.msg, in.duration, in.emergency, in.urgency,
                               "", <<>>)
    /\ UNCHANGED <<file, pc>>

\* option 7
Save ==
    /\ pc = "menu"
    /\ file' = save_to_csv(collection, file)
    /\ out' = Plain("save", IF Len(collection) = 0 THEN "no_data" ELSE "saved", <<>>)
    /\ UNCHANGED <<collection, pc>>

\* option 8
ShowByDoctor ==
    /\ pc = "menu"
    /\ \E doctor \in DoctorInputs :
          out' = Plain("get_records_by_doctor", doctor,
                       get_records_by_doctor(collection, doctor))
    /\ UNCHANGED <<file, collection, pc>>

\* option 0: optional save, then the loop ends
Exit ==
    /\ pc = "menu"
    /\ \E answer \in {"y", "Y", "n"} :
          IF Lower(answer) = "y"
          THEN /\ file' = save_to_csv(collection, file)
               /\ out' = Plain("exit", IF Len(collection) = 0 THEN "no_data" ELSE "saved", <<>>)
          ELSE /\ file' = file
               /\ out' = Plain("exit", "", <<>>)
    /\ pc' = "done"
    /\ UNCHANGED collection

\* any other choice
InvalidChoice ==
    /\ pc = "menu"
    /\ out' = Plain("invalid", "invalid_choice", <<>>)
    /\ UNCHANGED <<file, collection, pc>>

Next ==
    \/ Load
    \/ ShowAll
    \/ SortByPatientName
    \/ SortByDuration
    \/ FilterByDuration
    \/ ShowEmergency
    \/ AddRecord
    \/ Save
    \/ ShowByDoctor
    \/ Exit
    \/ InvalidChoice

Spec == Init /\ [][Next]_vars

TypeOK ==
    /\ pc \in {"start", "menu", "done"}
    /\ Len(collection) <= MaxRows + MaxRecords

(* ------------------------ helpers of the claims ----------------------- *)

Ids(records) == {records[i].id : i \in DOMAIN records}

DistinctIds(records) ==
    \A i, j \in DOMAIN records : i # j => records[i].id # records[j].id

\* a row none of whose cells is malformed: the required columns are there, id
\* and duration are numbers, and urgency is a number or has no column
WellFormed(row) ==
    /\ {"id", "patient_name", "doctor_name", "reason", "duration"} \subseteq DOMAIN row
    /\ IsInt(row["id"]) /\ IsInt(row["duration"])
    /\ ("urgency" \in DOMAIN row => IsInt(row["urgency"]))

\* res holds the records of orig in non-decreasing key order, records of equal
\* key in the order they have in orig
StablySorted(orig, res, k) ==
    /\ Len(res) = Len(orig)
    /\ \E p \in Permutations(DOMAIN orig) :
          /\ \A i \in DOMAIN res : res[i] = orig[p[i]]
          /\ \A i, j \in DOMAIN res : i < j => Key(res[i], k) <= Key(res[j], k)
          /\ \A i, j \in DOMAIN res :
                (i < j /\ Key(res[i], k) = Key(res[j], k)) => p[i] < p[j]

\* res holds exactly the records of orig longer than n, in the order of orig
StrictlyLonger(orig, res, n) ==
    LET idx == {i \in DOMAIN orig : orig[i].duration > n}
    IN  /\ Len(res) = Cardinality(idx)
        /\ \A i \in idx : res[Cardinality({j \in idx : j <= i})] = orig[i]

(* ------------------------------ claims -------------------------------- *)

\* C1: after save_to_csv, load_from_csv of the file written yields the
\* collection saved: same length, and position by position the same variant
\* and the same field values.
C1_RoundTrip ==
    (out.op = "save" \/ (out.op = "exit" /\ out.msg # ""))
        => load_from_csv(file).records = collection

C3_NoPartialLoad ==
    (out.op = "load" /\ \E i \in DOMAIN DictReader(file) : ~WellFormed(DictReader(file)[i]))
        => collection = <<>>

\* C4: the sorts return the records of the collection in non-decreasing key
\* order, records of equal key in their order in the collection, and leave the
\* collection as it was.
C4_StableSort ==
    [][ /\ out'.op = "sort_by_patient_name"
            => collection' = collection
               /\ StablySorted(collection, out'.result, "patient_name")
        /\ out'.op = "sort_by_duration"
            => collection' = collection
               /\ StablySorted(collection, out'.result, "duration") ]_vars

C4_Witness ==
    /\ out.op = "sort_by_duration"
    /\ out.result # collection
    /\ \E i, j \in DOMAIN collection :
          i < j /\ collection[i].duration = collection[j].duration
                /\ collection[i] # collection[j]

\* C5: filter_by_duration(N) returns exactly the records whose duration is
\* strictly greater than N, in the order of the collection, and leaves the
\* collection as it was.
C5_StrictFilter ==
    [][ (out'.op = "filter_by_duration" /\ out'.msg = "")
            => collection' = collection
               /\ StrictlyLonger(collection, out'.result, IntOf(out'.min)) ]_vars

C5_Witness ==
    /\ out.op = "filter_by_duration" /\ out.msg = ""
    /\ \E i \in DOMAIN collection : collection[i].duration = IntOf(out.min)
    /\ out.result # <<>>
    /\ Len(out.result) < Len(collection)

\* C6: loading a file that does not exist returns an empty collection, main
\* goes on to the menu, and the load creates no file.
C6_MissingFile ==
    [][ (pc = "start" /\ ~file.exists)
            => collection' = <<>> /\ pc' = "menu" /\ file' = file ]_vars

C6_Witness ==
    out.op = "load" /\ out.msg = "not_found" /\ pc = "menu" /\ ~file.exists

\* C7: save_to_csv of an empty collection leaves the file as it is.
C7_EmptySaveNoOp ==
    [][ (out'.op \in {"save", "exit"} /\ Len(collection) = 0)
            => file' = file /\ load_from_csv(file') = load_from_csv(file) ]_vars

C7_Witness ==
    /\ out.op = "save" /\ out.msg = "no_data"
    /\ collection = <<>>
    /\ file.exists /\ file.rows # <<>>

\* C8: text that is no number at the prompts of option 6 or option 4 leaves
\* the collection as it was, and main stays in the menu loop.
C8_InvalidInput ==
    [][ ( \/ /\ out'.op = "add"
              /\ \/ ~IsInt(out'.duration)
                 \/ Lower(out'.emergency) = "y" /\ ~IsInt(out'.urgency)
          \/ out'.op = "filter_by_duration" /\ ~IsInt(out'.min) )
            => collection' = collection /\ pc' = "menu" /\ file' = file ]_vars

C8_Witness ==
    /\ out.op = "add" /\ out.msg = "input_error"
    /\ IsInt(out.duration) /\ out.urgency = "abc"
    /\ collection # <<>>
    /\ pc = "menu"

\* C9: every record of the collection has a non-negative duration.
C9_NonNegativeDuration ==
    \A i \in DOMAIN collection : collection[i].duration >= 0

\* C10: a record added by option 6 gets id 1 in an empty collection and
\* max id + 1 otherwise, an id greater than every id present; no step makes
\* pairwise distinct ids collide.
C10_NextUnusedId ==
    [][ /\ (pc = "menu" /\ DistinctIds(collection)) => DistinctIds(collection')
        /\ (out'.op = "add" /\ out'.msg = "added")
            => /\ Len(collection') = Len(collection) + 1
               /\ SubSeq(collection', 1, Len(collection)) = collection
               /\ \A n \in Ids(collection) : collection'[Len(collection')].id > n
               /\ collection = <<>> => collection'[1].id = 1
               /\ collection # <<>>
                    => collection'[Len(collection')].id - 1 \in Ids(collection) ]_vars

C10_Witness ==
    /\ out.op = "add" /\ out.msg = "added"
    /\ Len(collection) = 3
    /\ DistinctIds(collection)
    /\ collection[1].id = 3 /\ collection[2].id = 4 /\ collection[3].id = 5

====
